---- MODULE Spec2Model ----
(***************************************************************************)
(* Lead / Booking intake service (src/app.py).                             *)
(*                                                                         *)
(* The model follows one request through the stack the file wires up:      *)
(*   Flask-Limiter before_request hook  ->  contact() / book()  ->         *)
(*   Flask-SQLAlchemy session (add / flush / commit)  ->  Flask-Mail  ->   *)
(*   response  ->  app-context teardown (session.remove()).                *)
(* Several worker threads serve requests concurrently against one          *)
(* database; each request owns its own scoped session.                     *)
(*                                                                         *)
(* Not modelled: created_at timestamps, the rendering of booking_date in   *)
(* Booking.to_dict, the text of the e-mail bodies, CORS, and the static    *)
(* /api/available-slots listing.                                           *)
(*                                                                         *)
(* Where a definition is preceded by a variant of itself (CommitOnTeardown *)
(* before shutdown_session, ...), the variant is the same code with one    *)
(* slip; it is used to see that the properties tell the two apart.         *)
(***************************************************************************)
EXTENDS Integers, Sequences, FiniteSets, TLC

(***************************************************************************)
(* Bounds of the model.                                                    *)
(***************************************************************************)
\* ids the Lead table hands out before the model stops inserting
MaxLeads == 2
\* requests the limiter counts in the concurrent specification
MaxRequests == 4
\* minutes of wall-clock time in the rate-limit specification
RateMaxNow == 10

Workers == {"w1", "w2"}
Clients == {"c1"}
Endpoints == {"contact", "book"}

(***************************************************************************)
(* Rate limits (app.py 33-37, 132, 163).  Time is counted in minutes.      *)
(***************************************************************************)
ContactPerMinute == 5
BookPerMinute == 3
DefaultPerDay == 200
DefaultPerHour == 50
MinutesPerHour == 60
MinutesPerDay == 1440

\* default_limits=["200 per day", "50 per hour"]
DefaultLimits ==
    { [amount |-> DefaultPerDay, period |-> MinutesPerDay],
      [amount |-> DefaultPerHour, period |-> MinutesPerHour] }

\* the @limiter.limit(...) decorators of the two routes
RouteLimits(ep) ==
    CASE ep = "contact" -> { [amount |-> ContactPerMinute, period |-> 1] }
      [] ep = "book"    -> { [amount |-> BookPerMinute, period |-> 1] }
      [] OTHER          -> {}

\* Flask-Limiter: a route decorated with limiter.limit(...) (override_defaults
\* left at its default, True) is checked against its own limits only; the
\* default limits apply to undecorated routes.
LimitsFor(ep) ==
    IF RouteLimits(ep) # {} THEN RouteLimits(ep) ELSE DefaultLimits

(***************************************************************************)
(* JSON request bodies.  request.json yields None, a list or a dict.       *)
(* Text that the code takes apart (booking_date) is a str: a sequence of   *)
(* Unicode code points, each a number in 0..1114111.  A JSON string can    *)
(* hold any of them, a lone surrogate (\ud800) included.                   *)
(***************************************************************************)
JNull == [kind |-> "null", items |-> <<>>, fields |-> <<>>]
JList(xs) == [kind |-> "list", items |-> xs, fields |-> <<>>]
JObject(f) == [kind |-> "object", items |-> <<>>, fields |-> f]

\* the printable ASCII characters from the space (32) to the underscore (95)
SpaceToUnderscore ==
    << " ", "!", "\"", "#", "$", "%", "&", "'", "(", ")", "*", "+",
       ",", "-", ".", "/", "0", "1", "2", "3", "4", "5", "6", "7",
       "8", "9", ":", ";", "<", "=", ">", "?", "@", "A", "B", "C",
       "D", "E", "F", "G", "H", "I", "J", "K", "L", "M", "N", "O",
       "P", "Q", "R", "S", "T", "U", "V", "W", "X", "Y", "Z", "[",
       "\\", "]", "^", "_" >>

\* the printable ASCII characters from a (97) to the tilde (126)
SmallAToTilde ==
    << "a", "b", "c", "d", "e", "f", "g", "h", "i", "j", "k", "l",
       "m", "n", "o", "p", "q", "r", "s", "t", "u", "v", "w", "x",
       "y", "z", "{", "|", "}", "~" >>

\* ord of Python, for a character of the two tables
ord(c) ==
    IF \E i \in 1..Len(SpaceToUnderscore) : SpaceToUnderscore[i] = c
    THEN 31 + (CHOOSE i \in 1..Len(SpaceToUnderscore) : SpaceToUnderscore[i] = c)
    ELSE 96 + (CHOOSE i \in 1..Len(SmallAToTilde) : SmallAToTilde[i] = c)

\* the str whose characters are chars
Codes(chars) == [i \in 1..Len(chars) |-> ord(chars[i])]

DateZ ==
    Codes(<< "2","0","2","4","-","0","3","-","2","5","T","1","0",":","0","0",":","0","0","Z" >>)
DateWords == Codes(<< "t","o","m","o","r","r","o","w" >>)

\* k in data, for a dict (its keys) or a list (its elements)
In(k, data) ==
    CASE data.kind = "object" -> k \in DOMAIN data.fields
      [] data.kind = "list"   -> \E i \in 1..Len(data.items) : data.items[i] = k
      [] OTHER                -> FALSE

\* all(k in data for k in keys)
HasAll(data, keys) == \A i \in 1..Len(keys) : In(keys[i], data)

\* What the head of a handler does with the body (lines 135-146, 166-177):
\*   None             -> `k in data` raises TypeError
\*   a key is absent  -> the 400 return
\*   a list holding every key -> data['name'] raises TypeError
\*   a dict holding every key -> the Lead is built
Validate(data, keys) ==
    CASE data.kind = "null"    -> "TypeError"
      [] ~HasAll(data, keys)   -> "missing"
      [] data.kind # "object"  -> "TypeError"
      [] OTHER                 -> "ok"

ContactKeys == << "name", "email" >>
BookKeys == << "name", "email", "booking_date" >>

(***************************************************************************)
(* datetime.fromisoformat(s.replace('Z', '+00:00')), line 181, as the      *)
(* interpreter of the deployment (CPython 3.11) parses it: the date is     *)
(* YYYY-MM-DD, YYYYMMDD or an ISO week date, any one character separates   *)
(* it from the time, the time is HH[:MM[:SS]] with or without colons and   *)
(* with an optional fraction, and the zone is Z or a signed HH[:MM[:SS]].  *)
(* The interpreter checks the length of the str, puts a T for a lone       *)
(* surrogate where a separator can stand, encodes the str as UTF-8 and     *)
(* parses the bytes, which end with a NUL in memory: a NUL in the text     *)
(* reads as its end wherever the parser asks whether anything follows,     *)
(* and a character outside ASCII is more than one byte.  Below the         *)
(* encoding a text is a sequence of bytes and a position is 1-based.       *)
(***************************************************************************)
RECURSIVE replace(_, _, _)
\* str.replace for a one-character pattern
replace(s, old, new) ==
    IF s = <<>> THEN <<>>
    ELSE (IF Head(s) = old THEN new ELSE <<Head(s)>>) \o replace(Tail(s), old, new)

UtcOffsetText == Codes(<< "+","0","0",":","0","0" >>)

\* the characters the grammar names
Zero    == ord("0")
Nine    == ord("9")
Dash    == ord("-")
Plus    == ord("+")
Colon   == ord(":")
Dot     == ord(".")
Comma   == ord(",")
LetterT == ord("T")
LetterW == ord("W")
LetterZ == ord("Z")

IsDigit(c) == c \in Zero..Nine
DigitVal(c) == c - Zero

Slice(s, lo, hi) ==
    \* s[lo-1:hi] of Python, 1-based and clipped to the text
    SubSeq(s, lo, IF hi > Len(s) THEN Len(s) ELSE hi)

\* the byte that ends a text in memory; a text may hold it as well
NUL == 0

\* a code point of the range U+D800..U+DFFF, which UTF-8 does not encode
IsSurrogate(c) == c \in 55296..57343

\* The str with a T for the first surrogate found at index 7, 8 or 10
\* (0-based, looked at in this order, as far as the str reaches): the places
\* where the separator of date and time can stand.
sanitize_isoformat_str(s) ==
    LET hit == {p \in {8, 9, 11} : p <= Len(s) /\ IsSurrogate(s[p])}
    IN  IF hit = {} THEN s
        ELSE [s EXCEPT ![CHOOSE p \in hit : \A r \in hit : p <= r] = LetterT]

\* the UTF-8 bytes of a code point that is no surrogate
EncodeChar(c) ==
    CASE c < 128   -> << c >>
      [] c >= 128 /\ c < 2048 -> << 192 + (c \div 64), 128 + (c % 64) >>
      [] c >= 2048 /\ c < 65536 ->
           << 224 + (c \div 4096), 128 + ((c \div 64) % 64), 128 + (c % 64) >>
      [] OTHER ->
           << 240 + (c \div 262144), 128 + ((c \div 4096) % 64),
              128 + ((c \div 64) % 64), 128 + (c % 64) >>

RECURSIVE utf8(_)
\* the UTF-8 encoding of a str without surrogates
utf8(s) == IF s = <<>> THEN <<>> ELSE EncodeChar(Head(s)) \o utf8(Tail(s))

\* the number of bytes of the character whose first byte is b, as the parser
\* steps over the separator of date and time
SeparatorWidth(b) ==
    CASE b < 128 -> 1
      [] b >= 224 /\ b <= 239 -> 3
      [] b >= 240 -> 4
      [] OTHER -> 2

\* the byte at position i, NUL past the end of the text
At(s, i) == IF i \in 1..Len(s) THEN s[i] ELSE NUL

RECURSIVE DecValue(_)
DecValue(s) == IF s = <<>> THEN 0 ELSE 10 * DecValue(SubSeq(s, 1, Len(s) - 1)) + DigitVal(s[Len(s)])

\* the value of a run of digits: -1 stands for a failed parse
ToInt(s) ==
    IF s # <<>> /\ (\A i \in 1..Len(s) : IsDigit(s[i])) THEN DecValue(s) ELSE -1

\* exactly n digits starting at position lo, -1 when the text has no such run
ParseDigits(s, lo, n) ==
    IF n >= 1 /\ lo >= 1 /\ lo + n - 1 <= Len(s) THEN ToInt(SubSeq(s, lo, lo + n - 1)) ELSE -1

IsLeap(y) == (y % 4 = 0) /\ ((y % 100 # 0) \/ (y % 400 = 0))
DaysInMonth(y, m) ==
    CASE m \in {4, 6, 9, 11} -> 30
      [] m = 2 -> IF IsLeap(y) THEN 29 ELSE 28
      [] OTHER -> 31

\* number of days before January 1st of year y
days_before_year(y) ==
    ((y - 1) * 365 + ((y - 1) \div 4) - ((y - 1) \div 100)) + ((y - 1) \div 400)

RECURSIVE days_before_month(_, _)
\* number of days of year y before the first day of month m
days_before_month(y, m) ==
    IF m <= 1 THEN 0 ELSE days_before_month(y, m - 1) + DaysInMonth(y, m - 1)

\* the ordinal of a date, 0001-01-01 being day 1
ymd2ord(y, m, d) == days_before_year(y) + days_before_month(y, m) + d

MaxOrdinal == ymd2ord(9999, 12, 31)

\* the date of an ordinal in 1..MaxOrdinal, by the 400/100/4/1-year cycles
ord2ymd(ordinal) ==
    LET di400 == days_before_year(401)
        di100 == days_before_year(101)
        di4   == days_before_year(5)
        n0    == ordinal - 1
        n400  == n0 \div di400
        r400  == n0 % di400
        n100  == r400 \div di100
        r100  == r400 % di100
        n4    == r100 \div di4
        r4    == r100 % di4
        n1    == r4 \div 365
        n     == r4 % 365
        year  == n400 * 400 + 1 + n100 * 100 + n4 * 4 + n1
        month == CHOOSE m \in 1..12 :
                     /\ days_before_month(year, m) <= n
                     /\ n < days_before_month(year, m) + DaysInMonth(year, m)
    IN  IF n1 = 4 \/ n100 = 4
        THEN [year |-> year - 1, month |-> 12, day |-> 31]
        ELSE [year |-> year, month |-> month, day |-> n - days_before_month(year, month) + 1]

\* the ordinal of the Monday that starts ISO week 1 of year y
isoweek1monday(y) ==
    LET firstday     == ymd2ord(y, 1, 1)
        firstweekday == (firstday + 6) % 7
        week1monday  == firstday - firstweekday
    IN  IF firstweekday > 3 THEN week1monday + 7 ELSE week1monday

NoDate == [ok |-> FALSE, year |-> 0, month |-> 0, day |-> 0]

\* a date that was found
Date(ymd) == [ok |-> TRUE, year |-> ymd.year, month |-> ymd.month, day |-> ymd.day]

\* ISO year, week and weekday to a calendar date: week 53 exists only in a
\* year that starts on a Thursday, or on a Wednesday when it is a leap year
isoweek_to_gregorian(y, week, weekday) ==
    LET firstweekday == ymd2ord(y, 1, 1) % 7
        weekOk == \/ week \in 1..52
                  \/ /\ week = 53
                     /\ (firstweekday = 4 \/ (firstweekday = 3 /\ IsLeap(y)))
        ordinal == isoweek1monday(y) + (week - 1) * 7 + (weekday - 1)
    IN  IF y \in 1..9999 /\ weekOk /\ weekday \in 1..7 /\ ordinal \in 1..MaxOrdinal
        THEN Date(ord2ymd(ordinal))
        ELSE NoDate

\* The length of the date part of a text of at least 7 bytes (the separator,
\* if any, is the character after it); -1 stands for ValueError.
find_isoformat_datetime_separator(s) ==
    LET n == Len(s)
        \* the first position after 7 that holds no digit
        idx == CHOOSE i \in 8..(n + 1) :
                   /\ ~IsDigit(At(s, i))
                   /\ \A j \in 8..(i - 1) : IsDigit(s[j])
    IN  CASE n = 7 -> 7
          [] n # 7 /\ s[5] = Dash /\ s[6] = LetterW ->
               IF n < 8 THEN -1
               ELSE IF n > 8 /\ s[9] = Dash
                    THEN (IF n = 9 THEN -1
                          ELSE IF n > 10 /\ IsDigit(s[11]) THEN 8
                          ELSE 10)
                    ELSE 8
          [] n # 7 /\ s[5] = Dash /\ s[6] # LetterW -> 10
          [] n # 7 /\ s[5] # Dash /\ s[5] = LetterW ->
               IF idx - 1 < 9 THEN idx - 1
               ELSE IF (idx - 1) % 2 = 0 THEN 7 ELSE 8
          [] OTHER -> 8

\* The week form from its W at position p: two digits of week, then, when the
\* date part is longer, a weekday digit (after a dash in the dashed form).
ParseWeekDate(s, sep, year, usesSeparator, p) ==
    LET hasDay == p + 3 <= sep
        q == IF usesSeparator THEN p + 4 ELSE p + 3
    IN  IF hasDay /\ usesSeparator /\ At(s, p + 3) # Dash THEN NoDate
        ELSE isoweek_to_gregorian(year, ParseDigits(s, p + 1, 2),
                                  IF hasDay THEN ParseDigits(s, q, 1) ELSE 1)

\* The calendar form from its month at position p
ParseCalendarDate(s, year, usesSeparator, p) ==
    IF usesSeparator /\ At(s, p + 2) # Dash THEN NoDate
    ELSE Date([year  |-> year,
               month |-> ParseDigits(s, p, 2),
               day   |-> ParseDigits(s, IF usesSeparator THEN p + 3 ELSE p + 2, 2)])

\* The date part: the first sep bytes of s.  A field that does not parse is
\* -1, which no calendar has.
parse_isoformat_date(s, sep) ==
    LET usesSeparator == At(s, 5) = Dash
        p == IF usesSeparator THEN 6 ELSE 5
    IN  IF ParseDigits(s, 1, 4) < 0 THEN NoDate
        ELSE IF At(s, p) = LetterW
        THEN ParseWeekDate(s, sep, ParseDigits(s, 1, 4), usesSeparator, p)
        ELSE ParseCalendarDate(s, ParseDigits(s, 1, 4), usesSeparator, p)

\* a failed parse of the fields; rest says that text follows the fields
BadFields ==
    [ok |-> FALSE, hour |-> 0, minute |-> 0, second |-> 0, microsecond |-> 0,
     rest |-> FALSE]

\* the factor that scales a fraction of fewer than six digits to microseconds
correction == << 100000, 10000, 1000, 100, 10 >>

\* The byte at position i of a part seg of a text, nxt being the byte of the
\* text that follows the part.
Ch(seg, nxt, i) ==
    IF i <= Len(seg) THEN At(seg, i) ELSE IF i = Len(seg) + 1 THEN nxt ELSE NUL

\* the fields with a fraction of `digits` digits whose value is micro
WithFraction(vals, micro, digits, rest) ==
    IF micro < 0 THEN BadFields
    ELSE [ok |-> TRUE, hour |-> vals[1], minute |-> vals[2], second |-> vals[3],
          microsecond |-> IF digits < 6 THEN micro * correction[digits] ELSE micro,
          rest |-> rest]

\* The fraction that starts at position p of seg: at most six digits count,
\* further digits are skipped; rest says that something other than a NUL
\* follows them.
ParseFraction(seg, nxt, p, vals) ==
    LET remains == Len(seg) - p + 1
        toParse == IF remains >= 6 THEN 6 ELSE remains
        stop    == CHOOSE i \in (p + toParse)..(Len(seg) + 1) :
                       /\ (i = Len(seg) + 1 \/ ~IsDigit(seg[i]))
                       /\ \A j \in (p + toParse)..(i - 1) : IsDigit(seg[j])
    IN  WithFraction(vals, ParseDigits(seg, p, toParse), toParse, Ch(seg, nxt, stop) # NUL)

RECURSIVE ParseFields(_, _, _, _, _, _)
\* Component i (1 hour, 2 minute, 3 second) of seg has the value v and is
\* followed at position p by the byte c.  The byte after the hour decides
\* whether the components are separated by colons.  When no byte of the part
\* follows c (c is its last byte, or the one after the part) the parse ends
\* there and rest says whether c is anything but a NUL.  After the seconds,
\* what is left of the part is read as the fraction.
AfterField(seg, nxt, i, p, v, c, hasSeparator, vals) ==
    LET sep  == IF i = 1 THEN c = Colon ELSE hasSeparator
        got  == [vals EXCEPT ![i] = v]
        mark == c \in {Dot, Comma}
        \* without colons c is already the next component
        q    == IF (sep /\ c = Colon) \/ mark THEN p + 1 ELSE p
    IN  IF v < 0 THEN BadFields
        ELSE IF p >= Len(seg)
        THEN [ok |-> TRUE, hour |-> got[1], minute |-> got[2], second |-> got[3],
              microsecond |-> 0, rest |-> c # NUL]
        ELSE IF sep /\ c # Colon /\ ~mark THEN BadFields
        ELSE IF mark \/ i = 3 THEN ParseFraction(seg, nxt, q, got)
        ELSE ParseFields(seg, nxt, i + 1, q, sep, got)

\* component i at position p of seg
ParseFields(seg, nxt, i, p, hasSeparator, vals) ==
    AfterField(seg, nxt, i, p + 2, ParseDigits(seg, p, 2), Ch(seg, nxt, p + 2),
               hasSeparator, vals)

\* HH[:MM[:SS[.ffffff]]] or HH[MM[SS[.ffffff]]] in a part seg of a text
parse_hh_mm_ss_ff(seg, nxt) == ParseFields(seg, nxt, 1, 1, TRUE, << 0, 0, 0 >>)

BadTime == [ok |-> FALSE, hour |-> 0, minute |-> 0, second |-> 0, microsecond |-> 0]

\* the fields, when nothing follows them
Whole(r) ==
    IF r.ok /\ ~r.rest
    THEN [ok |-> TRUE, hour |-> r.hour, minute |-> r.minute,
          second |-> r.second, microsecond |-> r.microsecond]
    ELSE BadTime

\* A text that is nothing but the fields of a time, with no zone: this is how
\* the offset after the sign is read, and the time of a text without a zone.
\* The fields are not range-checked here.
ParseHMS(t) == Whole(parse_hh_mm_ss_ff(t, NUL))

NoTime ==
    [ok |-> FALSE, hour |-> 0, minute |-> 0, second |-> 0, microsecond |-> 0,
     aware |-> FALSE, offset |-> 0, offsetMicrosecond |-> 0]

Time(hms, aware, offset, micro) ==
    [ok |-> TRUE, hour |-> hms.hour, minute |-> hms.minute,
     second |-> hms.second, microsecond |-> hms.microsecond,
     aware |-> aware, offset |-> offset, offsetMicrosecond |-> micro]

\* the offset of a zone with the sign and the fields off
Zoned(clock, sign, off) ==
    Time(clock, TRUE, sign * (off.hour * 3600 + off.minute * 60 + off.second),
         sign * off.microsecond)

\* The time fields clock and what follows them: nothing (mark is the NUL
\* after the text), a Z, or a sign and the fields off.  Before a zone the
\* fields only have to parse (10:Z is ten o'clock); without a zone, and in
\* the offset, nothing but a NUL may follow them, and nothing but a NUL may
\* follow the Z.
WithZone(clock, mark, markIsLast, off) ==
    CASE mark = NUL     -> IF clock.ok /\ ~clock.rest THEN Time(clock, FALSE, 0, 0) ELSE NoTime
      [] mark = LetterZ -> IF clock.ok /\ markIsLast THEN Time(clock, TRUE, 0, 0) ELSE NoTime
      [] OTHER          -> IF clock.ok /\ off.ok
                           THEN Zoned(clock, IF mark = Dash THEN -1 ELSE 1, off)
                           ELSE NoTime

\* the position of the first Z, + or - of t, Len(t) + 1 when there is none
FindZone(t) ==
    LET IsZoneMark(c) == c \in {LetterZ, Plus, Dash}
    IN  IF \E i \in 1..Len(t) : IsZoneMark(t[i])
        THEN CHOOSE i \in 1..Len(t) :
                 IsZoneMark(t[i]) /\ \A j \in 1..(i - 1) : ~IsZoneMark(t[j])
        ELSE Len(t) + 1

\* the time part t with its zone at tzPos
SplitAtZone(t, tzPos) ==
    WithZone(parse_hh_mm_ss_ff(Slice(t, 1, tzPos - 1), At(t, tzPos)),
             At(t, tzPos), At(t, tzPos + 1) = NUL,
             ParseHMS(Slice(t, tzPos + 1, Len(t))))

\* The time part t.  offset is in seconds east of UTC, offsetMicrosecond its
\* signed fraction.
parse_isoformat_time(t) == SplitAtZone(t, FindZone(t))

InvalidDate ==
    [ok |-> FALSE, year |-> 0, month |-> 0, day |-> 0,
     hour |-> 0, minute |-> 0, second |-> 0, microsecond |-> 0,
     aware |-> FALSE, offset |-> 0, offsetMicrosecond |-> 0]

Midnight ==
    [ok |-> TRUE, hour |-> 0, minute |-> 0, second |-> 0, microsecond |-> 0,
     aware |-> FALSE, offset |-> 0, offsetMicrosecond |-> 0]

\* The constructors check the ranges: the date exists, the time is below
\* 24:00:00, and the offset is strictly between -24 h and +24 h (its fields
\* are not checked one by one, so +00:60 is one hour; its fraction has the
\* sign of the seconds and is below one second, so the whole seconds decide).
\* An offset of zero whole seconds is UTC.
new_datetime(date, time) ==
    LET dateOk == /\ date.ok
                  /\ date.year \in 1..9999 /\ date.month \in 1..12
                  /\ date.day >= 1 /\ date.day <= DaysInMonth(date.year, date.month)
        timeOk == /\ time.ok
                  /\ time.hour <= 23 /\ time.minute <= 59 /\ time.second <= 59
        tzOk   == time.aware => (time.offset > 0 - 24 * 3600 /\ time.offset < 24 * 3600)
    IN  IF dateOk /\ timeOk /\ tzOk
        THEN [ok |-> TRUE, year |-> date.year, month |-> date.month, day |-> date.day,
              hour |-> time.hour, minute |-> time.minute, second |-> time.second,
              microsecond |-> time.microsecond,
              aware |-> time.aware, offset |-> time.offset,
              offsetMicrosecond |-> IF time.offset = 0 THEN 0 ELSE time.offsetMicrosecond]
        ELSE InvalidDate

\* The bytes s whose date part is its first sep bytes.  A text that ends
\* with its date is midnight; otherwise the character after the date is
\* stepped over, whatever it is, and the time is what follows it: a text
\* that ends with the separator is an error.
SplitAtSeparator(s, sep) ==
    IF sep < 0 THEN InvalidDate
    ELSE new_datetime(parse_isoformat_date(s, sep),
                      IF Len(s) > sep
                      THEN parse_isoformat_time(
                               Slice(s, sep + 1 + SeparatorWidth(s[sep + 1]), Len(s)))
                      ELSE Midnight)

\* the bytes b of a text of at least 7 characters
FromBytes(b) == SplitAtSeparator(b, find_isoformat_datetime_separator(b))

\* the text in memory: a str that still holds a surrogate has no encoding
\* (UnicodeEncodeError, a ValueError)
Encoded(s) ==
    IF \E i \in 1..Len(s) : IsSurrogate(s[i]) THEN InvalidDate
    ELSE FromBytes(utf8(s))

\* datetime.fromisoformat of a str s.  A str of fewer than 7 characters is
\* an error before anything is parsed.
fromisoformat(s) ==
    IF Len(s) < 7 THEN InvalidDate ELSE Encoded(sanitize_isoformat_str(s))

\* line 181 of book()
ParseBookingDate(text) == fromisoformat(replace(text, LetterZ, UtcOffsetText))

(***************************************************************************)
(* Request bodies the clients send.                                        *)
(***************************************************************************)
NameEmail == [name |-> "Ann", email |-> "ann@example.com"]
WithMessage == [name |-> "Ann", email |-> "ann@example.com", message |-> "hi"]
OnlyEmail == [email |-> "ann@example.com"]
BookingFields(d) == [name |-> "Ann", email |-> "ann@example.com", booking_date |-> d]
BookingWithStatus(d) ==
    [name |-> "Ann", email |-> "ann@example.com", message |-> "hi",
     booking_date |-> d, status |-> "confirmed"]

ContactBodies ==
    { JNull, JList(<<>>), JObject(OnlyEmail), JObject(NameEmail), JObject(WithMessage) }
BookBodies ==
    { JList(BookKeys), JObject(NameEmail),
      JObject(BookingWithStatus(DateZ)), JObject(BookingFields(DateWords)) }
Bodies(ep) == IF ep = "contact" THEN ContactBodies ELSE BookBodies

(***************************************************************************)
(* State.                                                                  *)
(***************************************************************************)
VARIABLES
    leads,       \* committed rows of table lead
    bookings,    \* committed rows of table booking
    leadSeq,     \* last id the lead table handed out
    bookingSeq,  \* last id the booking table handed out
    now,         \* wall clock, in minutes
    hits,        \* limiter storage: window counter per (client, endpoint, limit)
    served,      \* history: per (client, endpoint, default limit), the requests
                 \* that reached the handler in the current window of the limit
    pc,          \* position of each worker in its request
    req,         \* the request a worker is serving
    resp,        \* the response it returned
    session,     \* rows its db.session has INSERTed and not yet committed
    lead,        \* the handler's local `lead`
    booking,     \* the handler's local `booking`
    log,         \* history: flush / commit / mail.send events of the request
    wrote        \* history: rows the request made durable

vars == << leads, bookings, leadSeq, bookingSeq, now, hits, served,
           pc, req, resp, session, lead, booking, log, wrote >>

dbVars == << leads, bookings, leadSeq, bookingSeq >>
limiterVars == << now, hits, served >>

\* over: history, the limits the request exceeded when it arrived
NoRequest == [client |-> "none", endpoint |-> "none", body |-> JNull, over |-> {}]
NoResponse == [status |-> 0, error |-> "", payload |-> [kind |-> "none"]]
NoRow == [id |-> 0]
EmptySession == [leads |-> {}, bookings |-> {}]
NoWrites == [leads |-> {}, bookings |-> {}]

SetMax(S) == IF S = {} THEN 0 ELSE CHOOSE x \in S : \A y \in S : y <= x
Ids(rows) == { r.id : r \in rows }

(***************************************************************************)
(* Rate Guard: Flask-Limiter, fixed-window counters in memory, keyed by    *)
(* get_remote_address and the endpoint.                                    *)
(***************************************************************************)
AllLimits == DefaultLimits \cup UNION { RouteLimits(ep) : ep \in Endpoints }
\* the storage holds a counter per client, endpoint and limit checked there
LimitKeys ==
    { k \in Clients \X Endpoints \X AllLimits : k[3] \in LimitsFor(k[2]) }
ServedKeys == Clients \X Endpoints \X DefaultLimits
FreshCounter == [n |-> 0, exp |-> 0]

\* One more request in the window of a limit.  The count stops at amount + 1:
\* the limiter only asks whether it exceeds the amount.
Hit(counter, amount, period) ==
    IF counter.n = 0
    THEN [n |-> 1, exp |-> now + period]
    ELSE [n |-> IF counter.n > amount THEN counter.n ELSE counter.n + 1,
          exp |-> counter.exp]

HitsAfter(c, ep) ==
    [k \in LimitKeys |->
        IF k[1] = c /\ k[2] = ep
        THEN Hit(hits[k], k[3].amount, k[3].period)
        ELSE hits[k]]

\* the before_request check of the limiter: every applicable limit is hit, and
\* the request passes when none is exceeded
Allowed(c, ep) ==
    \A lim \in LimitsFor(ep) : HitsAfter(c, ep)[<<c, ep, lim>>].n <= lim.amount

\* history: one more request of the client reached the handler
ServedAfter(c, ep) ==
    [k \in ServedKeys |->
        IF k[1] = c /\ k[2] = ep
        THEN Hit(served[k], k[3].amount, k[3].period)
        ELSE served[k]]

\* the limits, of the route and of default_limits, that a request arriving now
\* exceeds: a route limit by the limiter's own count, a default limit when
\* that many requests of the client were already served in its window
Exceeded(c, ep) ==
    { lim \in RouteLimits(ep) : hits[<<c, ep, lim>>].n >= lim.amount }
    \cup { lim \in DefaultLimits : served[<<c, ep, lim>>].n >= lim.amount }

\* requests the limiter has counted in the open windows
RECURSIVE SumN(_, _)
SumN(f, keys) ==
    IF keys = {} THEN 0
    ELSE LET k == CHOOSE x \in keys : TRUE IN f[k].n + SumN(f, keys \ {k})
Counted == SumN(hits, LimitKeys)

Expire(counter, t) == IF counter.n > 0 /\ counter.exp <= t THEN FreshCounter ELSE counter

(***************************************************************************)
(* Handler locals and responses.                                           *)
(***************************************************************************)
\* variant: data.get('message')
MessageOfNoDefault(data) ==
    IF "message" \in DOMAIN data.fields THEN data.fields["message"] ELSE "None"
\* data.get('message', '')
MessageOf(data) ==
    IF "message" \in DOMAIN data.fields THEN data.fields["message"] ELSE ""

\* Lead(name=..., email=..., message=...), lines 142-146 and 173-177; id 0 is
\* the None of a row that was not flushed
NewLead(data) ==
    [id |-> 0, name |-> data.fields["name"], email |-> data.fields["email"],
     message |-> MessageOf(data)]

\* variant: status=data.get('status', 'pending')
BookingStatusFromBody(w) ==
    IF "status" \in DOMAIN req[w].body.fields
    THEN req[w].body.fields["status"] ELSE "pending"
\* Booking.status after INSERT: book() passes no status, so the column
\* default applies
BookingStatus(w) == "pending"

\* lead_id of the Booking built at lines 182-185
BookingLeadId(w) == lead[w].id

\* Lead.to_dict / Booking.to_dict (without the timestamps)
LeadDict(row) ==
    [kind |-> "lead", id |-> row.id, name |-> row.name, email |-> row.email,
     message |-> row.message]
BookingDict(row) ==
    [kind |-> "booking", id |-> row.id, lead_id |-> row.lead_id, status |-> row.status]

Error(status, text) == [status |-> status, error |-> text, payload |-> [kind |-> "none"]]
Success(payload) == [status |-> 201, error |-> "", payload |-> payload]

\* variant: no inner try, the mail exception reaches the outer except
HandlerReturnRaising(w, mailFailed) ==
    IF mailFailed THEN Error(500, "mail")
    ELSE IF req[w].endpoint = "contact" THEN Success(LeadDict(lead[w]))
    ELSE Success(BookingDict(booking[w]))
\* the return statement reached after the notification block (157, 196-199);
\* mailFailed tells whether the guarded block caught an exception
HandlerReturn(w, mailFailed) ==
    IF req[w].endpoint = "contact" THEN Success(LeadDict(lead[w]))
    ELSE Success(BookingDict(booking[w]))

(***************************************************************************)
(* db.session.                                                             *)
(***************************************************************************)
\* the highest lead id in use outside worker w's open transaction
LeadIdsInUse(w) ==
    SetMax(Ids(leads) \cup UNION { Ids(session[v].leads) : v \in Workers \ {w} })
BookingIdsInUse(w) ==
    SetMax(Ids(bookings) \cup UNION { Ids(session[v].bookings) : v \in Workers \ {w} })

\* After a rollback the database either keeps the ids it handed out
\* (a sequence) or hands them out again (max(rowid) + 1).
AfterRollback(seq, inUse) == { seq, inUse }

\* variant: the Lead of the transaction is left out of the commit
CommitBookingsOnly(tx, store) ==
    [leads |-> store.leads, bookings |-> store.bookings \cup tx.bookings]
\* db.session.commit(): the rows of the open transaction become durable
Commit(tx, store) ==
    [leads |-> store.leads \cup tx.leads, bookings |-> store.bookings \cup tx.bookings]

\* variant: SQLALCHEMY_COMMIT_ON_TEARDOWN
CommitOnTeardown(tx, store) ==
    [leads |-> store.leads \cup tx.leads, bookings |-> store.bookings \cup tx.bookings]
\* teardown of the app context: Flask-SQLAlchemy calls session.remove(), which
\* rolls back whatever the session did not commit
shutdown_session(tx, store) == store

Store == [leads |-> leads, bookings |-> bookings]

\* variant: the mail block in a finally clause
AfterCommitAlwaysNotify(ok) == "send_confirmation"
\* where a handler goes once commit() returned or raised (148-160, 187-202)
AfterCommit(ok) == IF ok THEN "send_confirmation" ELSE "done"

\* variant: one try block per send
AfterConfirmationSeparateTry(ok) == "send_admin"
\* where the guarded block goes after send_confirmation_email (151-155, 190-194)
AfterConfirmation(ok) == IF ok THEN "send_admin" ELSE "done"

(***************************************************************************)
(* Notifier (lines 73-128): one Message per call, handed to mail.send,     *)
(* which raises when ok is FALSE.                                          *)
(***************************************************************************)
AdminAddress == "MAIL_USERNAME"
DbEvent(name) == [ev |-> name, kind |-> "", to |-> "", variant |-> "", ok |-> TRUE]
Variant(w) == IF booking[w] # NoRow THEN "booking" ELSE "contact"
send_confirmation_email(w, ok) ==
    [ev |-> "send", kind |-> "confirmation", to |-> lead[w].email,
     variant |-> Variant(w), ok |-> ok]
send_admin_notification(w, ok) ==
    [ev |-> "send", kind |-> "admin", to |-> AdminAddress,
     variant |-> Variant(w), ok |-> ok]

(***************************************************************************)
(* Initial state: empty tables, empty limiter storage, idle workers.       *)
(***************************************************************************)
Init ==
    /\ leads = {}
    /\ bookings = {}
    /\ leadSeq = 0
    /\ bookingSeq = 0
    /\ now = 0
    /\ hits = [k \in LimitKeys |-> FreshCounter]
    /\ served = [k \in ServedKeys |-> FreshCounter]
    /\ pc = [w \in Workers |-> "idle"]
    /\ req = [w \in Workers |-> NoRequest]
    /\ resp = [w \in Workers |-> NoResponse]
    /\ session = [w \in Workers |-> EmptySession]
    /\ lead = [w \in Workers |-> NoRow]
    /\ booking = [w \in Workers |-> NoRow]
    /\ log = [w \in Workers |-> <<>>]
    /\ wrote = [w \in Workers |-> NoWrites]

(***************************************************************************)
(* The end of a request: the response is returned and the app context is   *)
(* torn down, which removes the session.  leadAlloc / bookingAlloc are the *)
(* sequences as the request leaves them before the rollback.  Both         *)
(* handlers catch every Exception themselves, so errorhandler(500) and its *)
(* rollback (229-232) never run for these routes.                          *)
(***************************************************************************)
Terminate(w, response, leadAlloc, bookingAlloc, rolledBack) ==
    LET after == shutdown_session(session[w], Store)
    IN  /\ resp' = [resp EXCEPT ![w] = response]
        /\ pc' = [pc EXCEPT ![w] = "done"]
        /\ leads' = after.leads
        /\ bookings' = after.bookings
        /\ wrote' = [wrote EXCEPT ![w] =
                        [leads |-> @.leads \cup (after.leads \ leads),
                         bookings |-> @.bookings \cup (after.bookings \ bookings)]]
        /\ session' = [session EXCEPT ![w] = EmptySession]
        /\ leadSeq' \in (IF rolledBack
                         THEN AfterRollback(leadAlloc, LeadIdsInUse(w))
                         ELSE {leadAlloc})
        /\ bookingSeq' \in (IF rolledBack
                            THEN AfterRollback(bookingAlloc, BookingIdsInUse(w))
                            ELSE {bookingAlloc})

(***************************************************************************)
(* A request arrives: the limiter's before_request hook runs first         *)
(* (lines 33-37, 132, 163, 225-227).                                       *)
(***************************************************************************)
Arrive(w, c, ep, body) ==
    /\ pc[w] = "idle"
    /\ req' = [req EXCEPT ![w] = [client |-> c, endpoint |-> ep, body |-> body,
                                 over |-> Exceeded(c, ep)]]
    /\ hits' = HitsAfter(c, ep)
    /\ UNCHANGED << now, lead, booking, log >>
    /\ IF Allowed(c, ep)
       THEN /\ pc' = [pc EXCEPT ![w] = "handler"]
            /\ served' = ServedAfter(c, ep)
            /\ UNCHANGED << dbVars, resp, session, wrote >>
       ELSE /\ served' = served
            /\ Terminate(w, Error(429, "Rate limit exceeded. Please try again later."),
                         leadSeq, bookingSeq, FALSE)

(***************************************************************************)
(* db.session.commit() (lines 148, 187) sends two statements, and other    *)
(* requests run between them: it first flushes the pending row (INSERT:    *)
(* the row gets its id and sits in the open transaction, invisible to the  *)
(* other sessions), then it issues COMMIT.  Each statement can fail; the   *)
(* handler's except clause then answers 500.  A flush that fails stages    *)
(* nothing.                                                                *)
(***************************************************************************)
\* the INSERT of a flush failed: the request ends with its 500
FlushFailed(w, leadAlloc, bookingAlloc) ==
    /\ Terminate(w, Error(500, "DBError"), leadAlloc, bookingAlloc, TRUE)
    /\ UNCHANGED << lead, booking, log >>

\* COMMIT of the transaction of worker w
CommitTransaction(w) ==
    /\ UNCHANGED << limiterVars, req, lead, booking >>
    /\ \E dbOk \in BOOLEAN :
         LET tx == session[w]
             after == Commit(tx, Store)
         IN  IF dbOk
             THEN /\ leads' = after.leads
                  /\ bookings' = after.bookings
                  /\ wrote' = [wrote EXCEPT ![w] =
                                  [leads |-> after.leads \ leads,
                                   bookings |-> after.bookings \ bookings]]
                  /\ session' = [session EXCEPT ![w] =
                                    [leads |-> tx.leads \ after.leads,
                                     bookings |-> tx.bookings \ after.bookings]]
                  /\ log' = [log EXCEPT ![w] = Append(@, DbEvent("commit"))]
                  /\ pc' = [pc EXCEPT ![w] = AfterCommit(TRUE)]
                  /\ UNCHANGED << leadSeq, bookingSeq, resp >>
             ELSE /\ log' = log
                  /\ IF AfterCommit(FALSE) = "done"
                     THEN Terminate(w, Error(500, "DBError"), leadSeq, bookingSeq, TRUE)
                     ELSE /\ pc' = [pc EXCEPT ![w] = AfterCommit(FALSE)]
                          /\ session' = [session EXCEPT ![w] = EmptySession]
                          /\ leadSeq' \in AfterRollback(leadSeq, LeadIdsInUse(w))
                          /\ bookingSeq' \in AfterRollback(bookingSeq, BookingIdsInUse(w))
                          /\ UNCHANGED << leads, bookings, resp, wrote >>

(***************************************************************************)
(* contact(), lines 133-148: validation, the Lead, add, and the flush with *)
(* which commit() begins.                                                  *)
(***************************************************************************)
Contact(w) ==
    /\ pc[w] = "handler"
    /\ req[w].endpoint = "contact"
    /\ UNCHANGED << limiterVars, req >>
    /\ LET data == req[w].body
           v    == Validate(data, ContactKeys)
       IN  CASE v = "TypeError" ->
                  /\ Terminate(w, Error(500, "TypeError"), leadSeq, bookingSeq, FALSE)
                  /\ UNCHANGED << lead, booking, log >>
             [] v = "missing" ->
                  /\ Terminate(w, Error(400, "Missing required fields"),
                               leadSeq, bookingSeq, FALSE)
                  /\ UNCHANGED << lead, booking, log >>
             [] OTHER ->
                  /\ leadSeq < MaxLeads
                  /\ \E dbOk \in BOOLEAN :
                       LET row == [NewLead(data) EXCEPT !.id = leadSeq + 1]
                       IN  IF dbOk
                           THEN /\ lead' = [lead EXCEPT ![w] = row]
                                /\ session' = [session EXCEPT ![w].leads = {row}]
                                /\ leadSeq' = leadSeq + 1
                                /\ log' = [log EXCEPT ![w] = << DbEvent("flush") >>]
                                /\ pc' = [pc EXCEPT ![w] = "flushed"]
                                /\ UNCHANGED << leads, bookings, bookingSeq, booking,
                                                resp, wrote >>
                           ELSE FlushFailed(w, leadSeq + 1, bookingSeq)

(***************************************************************************)
(* contact(), line 148: the COMMIT with which commit() ends.               *)
(***************************************************************************)
ContactCommit(w) ==
    /\ pc[w] = "flushed"
    /\ req[w].endpoint = "contact"
    /\ CommitTransaction(w)

(***************************************************************************)
(* book(), lines 164-179: validation, the Lead, add and flush.  The INSERT *)
(* runs in the request's transaction; the row gets its id and stays        *)
(* invisible to the other sessions.                                        *)
(***************************************************************************)
BookStage(w) ==
    /\ pc[w] = "handler"
    /\ req[w].endpoint = "book"
    /\ UNCHANGED << limiterVars, req >>
    /\ LET data == req[w].body
           v    == Validate(data, BookKeys)
       IN  CASE v = "TypeError" ->
                  /\ Terminate(w, Error(500, "TypeError"), leadSeq, bookingSeq, FALSE)
                  /\ UNCHANGED << lead, booking, log >>
             [] v = "missing" ->
                  /\ Terminate(w, Error(400, "Missing required fields"),
                               leadSeq, bookingSeq, FALSE)
                  /\ UNCHANGED << lead, booking, log >>
             [] OTHER ->
                  /\ leadSeq < MaxLeads
                  /\ \E dbOk \in BOOLEAN :
                       LET row == [NewLead(data) EXCEPT !.id = leadSeq + 1]
                       IN  IF dbOk
                           THEN /\ lead' = [lead EXCEPT ![w] = row]
                                /\ session' = [session EXCEPT ![w].leads = {row}]
                                /\ leadSeq' = leadSeq + 1
                                /\ log' = [log EXCEPT ![w] = << DbEvent("flush") >>]
                                /\ pc' = [pc EXCEPT ![w] = "staged"]
                                /\ UNCHANGED << leads, bookings, bookingSeq, booking,
                                                resp, wrote >>
                           ELSE FlushFailed(w, leadSeq + 1, bookingSeq)

(***************************************************************************)
(* book(), lines 181-187: the date is parsed, the Booking is built and     *)
(* added, and commit() begins with the flush that INSERTs it.              *)
(***************************************************************************)
BookAdd(w) ==
    /\ pc[w] = "staged"
    /\ UNCHANGED << limiterVars, req >>
    /\ LET date == ParseBookingDate(req[w].body.fields["booking_date"])
       IN  IF ~date.ok
           THEN /\ Terminate(w, Error(500, "ValueError"), leadSeq, bookingSeq, TRUE)
                /\ UNCHANGED << lead, booking, log >>
           ELSE /\ bookingSeq < MaxLeads
                /\ \E dbOk \in BOOLEAN :
                     LET row == [id |-> bookingSeq + 1, lead_id |-> BookingLeadId(w),
                                 booking_date |-> date, status |-> BookingStatus(w)]
                     IN  IF dbOk
                         THEN /\ booking' = [booking EXCEPT ![w] = row]
                              /\ session' = [session EXCEPT ![w].bookings = {row}]
                              /\ bookingSeq' = bookingSeq + 1
                              /\ log' = [log EXCEPT ![w] = Append(@, DbEvent("flush"))]
                              /\ pc' = [pc EXCEPT ![w] = "flushed"]
                              /\ UNCHANGED << leads, bookings, leadSeq, lead,
                                              resp, wrote >>
                         ELSE FlushFailed(w, leadSeq, bookingSeq + 1)

(***************************************************************************)
(* book(), line 187: the COMMIT with which commit() ends.                  *)
(***************************************************************************)
BookCommit(w) ==
    /\ pc[w] = "flushed"
    /\ req[w].endpoint = "book"
    /\ CommitTransaction(w)

(***************************************************************************)
(* The guarded notification block (150-155, 189-194) and the return.       *)
(***************************************************************************)
SendConfirmation(w) ==
    /\ pc[w] = "send_confirmation"
    /\ UNCHANGED << limiterVars, req, lead, booking >>
    /\ \E ok \in BOOLEAN :
         /\ log' = [log EXCEPT ![w] = Append(@, send_confirmation_email(w, ok))]
         /\ IF AfterConfirmation(ok) = "done"
            THEN Terminate(w, HandlerReturn(w, ~ok), leadSeq, bookingSeq, FALSE)
            ELSE /\ pc' = [pc EXCEPT ![w] = AfterConfirmation(ok)]
                 /\ UNCHANGED << dbVars, resp, session, wrote >>

SendAdmin(w) ==
    /\ pc[w] = "send_admin"
    /\ UNCHANGED << limiterVars, req, lead, booking >>
    /\ \E ok \in BOOLEAN :
         /\ log' = [log EXCEPT ![w] = Append(@, send_admin_notification(w, ok))]
         /\ Terminate(w, HandlerReturn(w, ~ok \/ \E i \in 1..Len(log[w]) :
                                                    log[w][i].ev = "send" /\ ~log[w][i].ok),
                      leadSeq, bookingSeq, FALSE)

(***************************************************************************)
(* The client has its response; the worker takes the next request.         *)
(***************************************************************************)
Finish(w) ==
    /\ pc[w] = "done"
    /\ pc' = [pc EXCEPT ![w] = "idle"]
    /\ req' = [req EXCEPT ![w] = NoRequest]
    /\ resp' = [resp EXCEPT ![w] = NoResponse]
    /\ lead' = [lead EXCEPT ![w] = NoRow]
    /\ booking' = [booking EXCEPT ![w] = NoRow]
    /\ log' = [log EXCEPT ![w] = <<>>]
    /\ wrote' = [wrote EXCEPT ![w] = NoWrites]
    /\ UNCHANGED << dbVars, limiterVars, session >>

(***************************************************************************)
(* A minute passes; the windows that ran out are dropped from the storage. *)
(***************************************************************************)
Tick(limit) ==
    /\ now < limit
    /\ now' = now + 1
    /\ hits' = [k \in LimitKeys |-> Expire(hits[k], now + 1)]
    /\ served' = [k \in ServedKeys |-> Expire(served[k], now + 1)]
    /\ UNCHANGED << dbVars, pc, req, resp, session, lead, booking, log, wrote >>

(***************************************************************************)
(* Spec: the workers serve concurrent requests that arrive within one      *)
(* rate-limit window, MaxRequests of them counted by the limiter.          *)
(***************************************************************************)
Next ==
    \/ /\ Counted < MaxRequests
       /\ \E w \in Workers, c \in Clients, ep \in Endpoints :
            \E body \in Bodies(ep) : Arrive(w, c, ep, body)
    \/ \E w \in Workers : Contact(w)
    \/ \E w \in Workers : ContactCommit(w)
    \/ \E w \in Workers : BookStage(w)
    \/ \E w \in Workers : BookAdd(w)
    \/ \E w \in Workers : BookCommit(w)
    \/ \E w \in Workers : SendConfirmation(w)
    \/ \E w \in Workers : SendAdmin(w)
    \/ \E w \in Workers : Finish(w)

Spec == Init /\ [][Next]_vars

(***************************************************************************)
(* SpecRate: one client keeps posting to /api/contact while the minutes    *)
(* pass, so that the hourly ceiling of default_limits comes within reach.  *)
(***************************************************************************)
RateBodies == { JObject(OnlyEmail), JObject(NameEmail) }

NextRate ==
    \/ \E body \in RateBodies : Arrive("w1", "c1", "contact", body)
    \/ Contact("w1")
    \/ ContactCommit("w1")
    \/ SendConfirmation("w1")
    \/ SendAdmin("w1")
    \/ Finish("w1")
    \/ Tick(RateMaxNow)

SpecRate == Init /\ [][NextRate]_vars

(***************************************************************************)
(* Properties.                                                             *)
(***************************************************************************)
Done(w) == pc[w] = "done"
IsSend(e) == e.ev = "send"
Sends(w) == SelectSeq(log[w], IsSend)
Staged(w) == \E i \in 1..Len(log[w]) : log[w][i].ev = "flush"
Committed(w) == \E i \in 1..Len(log[w]) : log[w][i].ev = "commit"
MailFailed(w) == \E i \in 1..Len(log[w]) : log[w][i].ev = "send" /\ ~log[w][i].ok
Durable(w) == wrote[w].leads \subseteq leads /\ wrote[w].bookings \subseteq bookings
HasKeys(data, keys) ==
    data.kind = "object" /\ \A i \in 1..Len(keys) : keys[i] \in DOMAIN data.fields

\* C1: a booking submission that fails after its Lead was flushed and before
\* its commit succeeded makes nothing durable: neither the Lead nor a Booking
\* of that request is committed, and nothing stays pending in its session.
C1_BookingAtomic ==
    \A w \in Workers :
        (Done(w) /\ req[w].endpoint = "book" /\ Staged(w) /\ ~Committed(w))
            => /\ wrote[w] = NoWrites
               /\ session[w] = EmptySession
               /\ resp[w].status = 500
C1_Witness ==
    \E w \in Workers :
        /\ Done(w) /\ req[w].endpoint = "book" /\ Staged(w) /\ ~Committed(w)
        /\ resp[w].error = "ValueError"
        /\ lead[w].id > 0

\* C2: in every state every committed Booking refers to a committed Lead,
\* whatever the interleaving of the requests.
C2_BookingHasLead ==
    \A b \in bookings : \E l \in leads : l.id = b.lead_id
C2_Witness ==
    /\ bookings # {}
    /\ \E w \in Workers : pc[w] = "staged" /\ session[w].leads # {}

\* C3: a booking submission answered 201 committed exactly one Lead and one
\* Booking, the Booking refers to that Lead, and its status is "pending"
\* whatever status the body carried.
C3_BookingSuccess ==
    \A w \in Workers :
        (Done(w) /\ req[w].endpoint = "book" /\ resp[w].status = 201)
            => /\ Cardinality(wrote[w].leads) = 1
               /\ Cardinality(wrote[w].bookings) = 1
               /\ Durable(w)
               /\ \A l \in wrote[w].leads : \A b \in wrote[w].bookings :
                     /\ b.lead_id = l.id
                     /\ b.status = "pending"
                     /\ resp[w].payload = BookingDict(b)
C3_Witness ==
    \E w \in Workers :
        /\ Done(w) /\ req[w].endpoint = "book" /\ resp[w].status = 201
        /\ "status" \in DOMAIN req[w].body.fields
        /\ req[w].body.fields["status"] # "pending"

\* C4: when mail.send raises after a successful commit, the request is still
\* answered 201 and the rows it committed stay committed.
C4_MailFailureNonFatal ==
    \A w \in Workers :
        (Done(w) /\ Committed(w) /\ MailFailed(w))
            => /\ resp[w].status = 201
               /\ wrote[w].leads # {}
               /\ (req[w].endpoint = "book" => wrote[w].bookings # {})
               /\ Durable(w)
C4_Witness ==
    \E w, v \in Workers :
        /\ Done(w) /\ req[w].endpoint = "book" /\ Committed(w) /\ MailFailed(w)
        /\ Done(v) /\ req[v].endpoint = "contact" /\ Committed(v) /\ MailFailed(v)

\* C5 (as claimed): a contact submission without `name` or `email`, a body
\* that is no JSON object included, is answered 400 unless the limiter
\* rejected it, persists no Lead and sends no e-mail.
C5_MissingFieldsIs400 ==
    \A w \in Workers :
        (Done(w) /\ req[w].endpoint = "contact" /\ resp[w].status # 429
                 /\ ~HasKeys(req[w].body, ContactKeys))
            => /\ resp[w].status = 400
               /\ wrote[w] = NoWrites
               /\ Sends(w) = <<>>

\* C6 (as claimed): a request that exceeds a limit on arrival, one of
\* default_limits included, is answered 429, never enters the handler,
\* writes nothing and sends nothing.
C6_OverLimitIs429 ==
    \A w \in Workers :
        req[w].over # {}
            => /\ Done(w)
               /\ resp[w].status = 429
               /\ log[w] = <<>>
               /\ wrote[w] = NoWrites

\* C7 (as claimed): a booking submission with every required key whose
\* booking_date does not parse is answered 400 and persists nothing.
C7_BadDateIs400 ==
    \A w \in Workers :
        (Done(w) /\ req[w].endpoint = "book" /\ HasKeys(req[w].body, BookKeys)
                 /\ Staged(w)
                 /\ ~ParseBookingDate(req[w].body.fields["booking_date"]).ok)
            => /\ resp[w].status = 400
               /\ wrote[w] = NoWrites

\* C8: a contact submission answered 201 committed exactly one Lead and no
\* Booking; the Lead's message is "" when the body had none; the response
\* shows that row, whose id no other committed Lead has.
C8_ContactSuccess ==
    \A w \in Workers :
        (Done(w) /\ req[w].endpoint = "contact" /\ resp[w].status = 201)
            => /\ Cardinality(wrote[w].leads) = 1
               /\ wrote[w].bookings = {}
               /\ Durable(w)
               /\ \A l \in wrote[w].leads :
                     /\ resp[w].payload = LeadDict(l)
                     /\ l.name = req[w].body.fields["name"]
                     /\ l.email = req[w].body.fields["email"]
                     /\ ("message" \notin DOMAIN req[w].body.fields => l.message = "")
                     /\ \A other \in leads : other.id = l.id => other = l
C8_Witness ==
    \E w \in Workers :
        /\ Done(w) /\ req[w].endpoint = "contact" /\ resp[w].status = 201
        /\ "message" \notin DOMAIN req[w].body.fields
        /\ Cardinality(leads) >= 2

\* C9: every mail.send of a request comes after the request's commit, and a
\* request answered 400, 429 or 500 sent nothing.
C9_PersistBeforeNotify ==
    \A w \in Workers :
        /\ \A i \in 1..Len(log[w]) :
              log[w][i].ev = "send"
                  => \E j \in 1..(i - 1) : log[w][j].ev = "commit"
        /\ (Done(w) /\ resp[w].status # 201) => Sends(w) = <<>>
C9_Witness ==
    \E w, v \in Workers :
        /\ Committed(w) /\ Sends(w) # <<>>
        /\ Done(v) /\ resp[v].status = 500 /\ Staged(v) /\ Sends(v) = <<>>

\* C10: in a request answered 201 the confirmation is sent first, and the
\* administrator alert is attempted exactly when the confirmation did not
\* raise.
C10_AdminOnlyAfterConfirmation ==
    \A w \in Workers :
        (Done(w) /\ resp[w].status = 201)
            => /\ Len(Sends(w)) >= 1
               /\ Sends(w)[1].kind = "confirmation"
               /\ Sends(w)[1].ok => (Len(Sends(w)) = 2 /\ Sends(w)[2].kind = "admin")
               /\ ~Sends(w)[1].ok => Len(Sends(w)) = 1
C10_Witness ==
    \E w \in Workers :
        /\ Done(w) /\ resp[w].status = 201
        /\ Len(Sends(w)) = 1 /\ ~Sends(w)[1].ok

====
